---- MODULE Spec2Model ----
(***************************************************************************)
(* Model of src/rossler.py: the fixed-step RK4 integration of the Rossler  *)
(* system (rossler, du, integrate.rk4_step, integrate.for_loop).           *)
(*                                                                         *)
(* Numbers.  T, dt and the time grid are exact rationals [num, den].  The  *)
(* phase-space state (x, y, z), c and delta_t are fixed-point numbers: an  *)
(* integer v stands for v / Scale, and every product or quotient is        *)
(* rounded to the nearest representable value, as each floating-point      *)
(* operation of the program rounds its result.                             *)
(***************************************************************************)
EXTENDS Integers, Sequences, FiniteSets, TLC

\* ---- bounds of the model ------------------------------------------------
Scale == 1000          \* fixed-point resolution: v stands for v / Scale
MaxTNum == 5           \* T ranges over k/2, k in -2..MaxTNum
MaxDtNum == 6          \* dt ranges over k/4, k in -2..MaxDtNum
MaxC == 2              \* c ranges over 0..MaxC

\* ---- exact rationals -----------------------------------------------------
Rat(p, q) == [num |-> p, den |-> q]

RatZero == Rat(0, 1)

RatEq(r, s) == r.num * s.den = s.num * r.den

RatSub(r, s) == Rat(r.num * s.den - s.num * r.den, r.den * s.den)

RatIsZero(r) == r.num = 0

RatPos(r) == r.num > 0

\* variant of TruncDiv that rounds away from zero
TruncDivUp(p, q) ==
  LET pp == IF q < 0 THEN -p ELSE p
      qq == IF q < 0 THEN -q ELSE q
  IN IF pp >= 0 THEN (pp + qq - 1) \div qq ELSE -((-pp + qq - 1) \div qq)

\* int(p / q) for integers p, q with q # 0: truncation toward zero
TruncDiv(p, q) ==
  LET pp == IF q < 0 THEN -p ELSE p
      qq == IF q < 0 THEN -q ELSE q
  IN IF pp >= 0 THEN pp \div qq ELSE -((-pp) \div qq)

\* ---- fixed-point arithmetic ---------------------------------------------
\* p / q rounded to the nearest integer (q > 0)
RDiv(p, q) == (2 * p + q) \div (2 * q)

Fix(r) == RDiv(r.num * Scale, r.den)

Mul(v, w) == RDiv(v * w, Scale)

Zero == <<0, 0, 0>>

VAdd(v, w) == <<v[1] + w[1], v[2] + w[2], v[3] + w[3]>>

VMul(s, v) == <<Mul(s, v[1]), Mul(s, v[2]), Mul(s, v[3])>>

VTimes(k, v) == <<k * v[1], k * v[2], k * v[3]>>

VOver(v, k) == <<RDiv(v[1], k), RDiv(v[2], k), RDiv(v[3], k)>>

\* ---- numpy helpers used by rossler ----------------------------------------
\* variant of linspace that leaves the endpoint out (step = stop / num)
linspaceNoEndpoint(stop, num) ==
  [k \in 1..num |-> Rat((k - 1) * stop.num, num * stop.den)]

\* variant of linspace that starts one step late and never pins the last sample
linspaceShifted(stop, num) ==
  [k \in 1..num |->
     IF num = 1 THEN RatZero
     ELSE Rat(k * stop.num, (num - 1) * stop.den)]

\* np.linspace(0, stop, num): num evenly spaced samples, endpoint included;
\* step = stop / (num - 1), the last sample is set to stop, and a single
\* sample is the start point 0.
linspace(stop, num) ==
  [k \in 1..num |->
     IF num = 1 THEN RatZero
     ELSE IF k = num THEN stop
     ELSE Rat((k - 1) * stop.num, (num - 1) * stop.den)]

zeros(num) == [k \in 1..num |-> 0]

\* np.transpose of a 3 x num array given as three rows: num rows of 3
transpose(rows, num) == [k \in 1..num |-> <<rows[1][k], rows[2][k], rows[3][k]>>]

\* variant of transposeBack that hands the rows back in reverse order
transposeBackReversed(m, num) == [j \in 1..3 |-> [k \in 1..num |-> m[num + 1 - k][j]]]

\* np.transpose of a num x 3 array: three rows of num
transposeBack(m, num) == [j \in 1..3 |-> [k \in 1..num |-> m[k][j]]]

\* variant of PyIndex that clamps a negative index to slot 0
PyIndexClamp(k, num) == IF k < 0 THEN 0 ELSE k

\* u[k] for a Python index k into an array of length num (negative wraps)
PyIndex(k, num) == IF k < 0 THEN k + num ELSE k

\* ---- du -------------------------------------------------------------------
a == Fix(Rat(2, 10))

b == Fix(Rat(2, 10))

du(m, cc) == << -m[2] - m[3], m[1] + Mul(a, m[2]), b + Mul(m[3], m[1] - cc) >>

\* ---- inputs ---------------------------------------------------------------
TVals == { Rat(k, 2) : k \in -2..MaxTNum }

DtVals == { Rat(k, 4) : k \in -2..MaxDtNum }

CVals == { k * Scale : k \in 0..MaxC }

NoFrame == [columns |-> {}, index |-> <<>>, t |-> <<>>, x |-> <<>>, y |-> <<>>, z |-> <<>>]

VARIABLES pc, c, T, dt, n, t_vals, allocated, u, i, t_current, prev, K1, K2, K3, K4,
          df, err, reads, writes, steps, duCalls

vars == <<pc, c, T, dt, n, t_vals, allocated, u, i, t_current, prev, K1, K2, K3, K4,
          df, err, reads, writes, steps, duCalls>>

\* the view u[i - 1] held by rk4_step while it runs
u_prev == u[prev + 1]

delta_t == Fix(dt)

Init ==
  /\ pc = "call"
  /\ c \in CVals
  /\ T \in TVals
  /\ dt \in DtVals
  /\ n = 0
  /\ t_vals = <<>>
  /\ allocated = FALSE
  /\ u = <<>>
  /\ i = 0
  /\ t_current = 0
  /\ prev = 0
  /\ K1 = Zero /\ K2 = Zero /\ K3 = Zero /\ K4 = Zero
  /\ df = NoFrame
  /\ err = "none"
  /\ reads = <<>>
  /\ writes = <<>>
  /\ steps = 0
  /\ duCalls = 0

\* n = int(T / dt)
ComputeN ==
  /\ pc = "call"
  /\ IF RatIsZero(dt)
       THEN /\ pc' = "raised"
            /\ err' = "ZeroDivisionError"
            /\ n' = n
       ELSE /\ pc' = "linspace"
            /\ err' = err
            /\ n' = TruncDiv(T.num * dt.den, T.den * dt.num)
  /\ UNCHANGED <<c, T, dt, t_vals, allocated, u, i, t_current, prev, K1, K2, K3, K4,
                 df, reads, writes, steps, duCalls>>

\* t_vals = np.linspace(0, T, n)
Linspace ==
  /\ pc = "linspace"
  /\ IF n < 0
       THEN /\ pc' = "raised"
            /\ err' = "ValueError"
            /\ t_vals' = t_vals
       ELSE /\ pc' = "alloc"
            /\ err' = err
            /\ t_vals' = linspace(T, n)
  /\ UNCHANGED <<c, T, dt, n, allocated, u, i, t_current, prev, K1, K2, K3, K4,
                 df, reads, writes, steps, duCalls>>

\* x, y, z = np.zeros(n); u = np.transpose(np.array([x, y, z])); call integrate
Alloc ==
  /\ pc = "alloc"
  /\ u' = transpose(<<zeros(n), zeros(n), zeros(n)>>, n)
  /\ allocated' = TRUE
  /\ i' = 0
  /\ pc' = "loop"
  /\ UNCHANGED <<c, T, dt, n, t_vals, t_current, prev, K1, K2, K3, K4,
                 df, err, reads, writes, steps, duCalls>>

\* for i in range(n): t_current = delta_t * i; call rk4_step(u[i - 1], ...)
LoopHead ==
  /\ pc = "loop"
  /\ IF i < n
       THEN /\ t_current' = delta_t * i
            /\ prev' = PyIndex(i - 1, n)
            /\ reads' = Append(reads, <<PyIndex(i - 1, n), u[PyIndex(i - 1, n) + 1]>>)
            /\ steps' = steps + 1
            /\ pc' = "K1"
       ELSE /\ pc' = "assemble"
            /\ UNCHANGED <<t_current, prev, reads, steps>>
  /\ UNCHANGED <<c, T, dt, n, t_vals, allocated, u, i, K1, K2, K3, K4,
                 df, err, writes, duCalls>>

StepK1 ==
  /\ pc = "K1"
  /\ K1' = VMul(delta_t, du(u_prev, c))
  /\ duCalls' = duCalls + 1
  /\ pc' = "K2"
  /\ UNCHANGED <<c, T, dt, n, t_vals, allocated, u, i, t_current, prev, K2, K3, K4,
                 df, err, reads, writes, steps>>

StepK2 ==
  /\ pc = "K2"
  /\ K2' = VMul(delta_t, du(VAdd(u_prev, VOver(K1, 2)), c))
  /\ duCalls' = duCalls + 1
  /\ pc' = "K3"
  /\ UNCHANGED <<c, T, dt, n, t_vals, allocated, u, i, t_current, prev, K1, K3, K4,
                 df, err, reads, writes, steps>>

StepK3 ==
  /\ pc = "K3"
  /\ K3' = VMul(delta_t, du(VAdd(u_prev, VOver(K2, 2)), c))
  /\ duCalls' = duCalls + 1
  /\ pc' = "K4"
  /\ UNCHANGED <<c, T, dt, n, t_vals, allocated, u, i, t_current, prev, K1, K2, K4,
                 df, err, reads, writes, steps>>

StepK4 ==
  /\ pc = "K4"
  /\ K4' = VMul(delta_t, du(VAdd(u_prev, K3), c))
  /\ duCalls' = duCalls + 1
  /\ pc' = "store"
  /\ UNCHANGED <<c, T, dt, n, t_vals, allocated, u, i, t_current, prev, K1, K2, K3,
                 df, err, reads, writes, steps>>

\* variant of rk4_result that averages the four stages with equal weights
rk4_result_unweighted ==
  VAdd(u_prev, VOver(VAdd(VAdd(K1, K2), VAdd(K3, K4)), 4))

\* the value rk4_step returns
rk4_result ==
  VAdd(u_prev, VOver(VAdd(VAdd(K1, VTimes(2, K2)), VAdd(VTimes(2, K3), K4)), 6))

\* variant of Store that writes the slot that was read (u[i - 1])
StoreAtPrev ==
  /\ pc = "store"
  /\ u' = [u EXCEPT ![prev + 1] = rk4_result]
  /\ writes' = Append(writes, prev)
  /\ i' = i + 1
  /\ pc' = "loop"
  /\ UNCHANGED <<c, T, dt, n, t_vals, allocated, t_current, prev, K1, K2, K3, K4,
                 df, err, reads, steps, duCalls>>

\* u[i] = <returned value>; next i
Store ==
  /\ pc = "store"
  /\ u' = [u EXCEPT ![i + 1] = rk4_result]
  /\ writes' = Append(writes, i)
  /\ i' = i + 1
  /\ pc' = "loop"
  /\ UNCHANGED <<c, T, dt, n, t_vals, allocated, t_current, prev, K1, K2, K3, K4,
                 df, err, reads, steps, duCalls>>

\* soln = np.transpose(soln_p); df = DataFrame({...}); return df.set_index(t_vals)
soln == transposeBack(u, n)

Assemble ==
  /\ pc = "assemble"
  /\ df' = [columns |-> {"t", "x", "y", "z"}, index |-> t_vals,
            t |-> t_vals, x |-> soln[1], y |-> soln[2], z |-> soln[3]]
  /\ pc' = "returned"
  /\ UNCHANGED <<c, T, dt, n, t_vals, allocated, u, i, t_current, prev, K1, K2, K3, K4,
                 err, reads, writes, steps, duCalls>>

Next ==
  \/ ComputeN
  \/ Linspace
  \/ Alloc
  \/ LoopHead
  \/ StepK1
  \/ StepK2
  \/ StepK3
  \/ StepK4
  \/ Store
  \/ Assemble

Spec == Init /\ [][Next]_vars

FairSpec == Spec /\ WF_vars(Next)

\* ---- properties ------------------------------------------------------------
Valid == RatPos(T) /\ RatPos(dt)

Finished == pc \in {"returned", "raised"}

\* floor(T / dt) for T, dt > 0, defined by k * dt <= T < (k + 1) * dt
FloorTdt ==
  CHOOSE k \in 0..(T.num * dt.den) :
    /\ k * dt.num * T.den <= T.num * dt.den
    /\ T.num * dt.den < (k + 1) * dt.num * T.den

Row(k) == <<df.x[k], df.y[k], df.z[k]>>

\* the Rossler field with a = b = 0.2, written from its equations
RosslerField(m, cc) ==
  << -m[2] - m[3],
     m[1] + Mul(Fix(Rat(1, 5)), m[2]),
     Fix(Rat(1, 5)) + Mul(m[3], m[1] - cc) >>

\* the classical fourth-order Runge-Kutta update of v with step h
ClassicalRK4(v, h, cc) ==
  LET k1 == VMul(h, RosslerField(v, cc))
      k2 == VMul(h, RosslerField(VAdd(v, VOver(k1, 2)), cc))
      k3 == VMul(h, RosslerField(VAdd(v, VOver(k2, 2)), cc))
      k4 == VMul(h, RosslerField(VAdd(v, k3), cc))
  IN VAdd(v, VOver(VAdd(VAdd(k1, VTimes(2, k2)), VAdd(VTimes(2, k3), k4)), 6))

\* C1: for T > 0 and dt > 0 the returned trajectory has exactly floor(T / dt)
\* rows: the time column, the index and the x, y, z columns all have that length.
C1_Length ==
  (pc = "returned" /\ Valid) =>
     /\ Len(df.t) = FloorTdt
     /\ Len(df.index) = FloorTdt
     /\ Len(df.x) = FloorTdt
     /\ Len(df.y) = FloorTdt
     /\ Len(df.z) = FloorTdt

\* a trajectory of two rows was returned for T / dt = 5/2, which is not integral
C1_Witness ==
  /\ pc = "returned" /\ Valid
  /\ RatEq(T, Rat(5, 2)) /\ RatEq(dt, Rat(1, 1))
  /\ Len(df.x) = 2

\* C2: row 0 of the returned trajectory is the initial condition x = y = z = 0.
C2_RowZeroInitial ==
  (pc = "returned" /\ Valid /\ n >= 1) => Row(1) = Zero

\* C3: a call with T <= 0 or dt <= 0 ends in an InvalidParameter error, raised
\* before any buffer is allocated and before any RK4 step is run.
C3_InvalidParameter ==
  (Finished /\ ~Valid) =>
     /\ pc = "raised"
     /\ err = "InvalidParameter"
     /\ ~allocated
     /\ steps = 0

\* C4: a call with T > 0, dt > 0 and floor(T / dt) < 1 ends in a
\* DegenerateTrajectory error and never returns a zero-row trajectory.
C4_Degenerate ==
  (Finished /\ Valid /\ FloorTdt < 1) =>
     /\ pc = "raised"
     /\ err = "DegenerateTrajectory"

EvenlySpaced(ts) ==
  \A k \in 1..(Len(ts) - 2) :
     RatEq(RatSub(ts[k + 1], ts[k]), RatSub(ts[k + 2], ts[k + 1]))

\* C5 as stated: for every valid (T, dt) with n >= 1 the time column is evenly
\* spaced with t[0] = 0 and t[n-1] = T.
C5_Original ==
  (pc = "returned" /\ Valid /\ n >= 1) =>
     /\ Len(df.t) = n
     /\ RatEq(df.t[1], RatZero)
     /\ RatEq(df.t[n], T)
     /\ EvenlySpaced(df.t)

\* C5 (amended): for every valid (T, dt) with n >= 2 the time column is an evenly
\* spaced sequence of n points with t[0] = 0 and t[n-1] = T; for n = 1 it is
\* the single point t[0] = 0, which does not include T.
C5_Grid ==
  (pc = "returned" /\ Valid /\ n >= 1) =>
     /\ Len(df.t) = n
     /\ RatEq(df.t[1], RatZero)
     /\ n >= 2 => (RatEq(df.t[n], T) /\ EvenlySpaced(df.t))
     /\ n = 1 => ~RatEq(df.t[n], T)

\* a grid of at least three points was returned for a non-integral T / dt
C5_Witness ==
  /\ pc = "returned" /\ Valid
  /\ n >= 3
  /\ (T.num * dt.den) % (T.den * dt.num) # 0
  /\ RatEq(df.t[n], T)

\* C6 as stated: t[i] = i * (T / n) for every i in 0..n-1.
C6_Original ==
  (pc = "returned" /\ Valid) =>
     \A k \in 1..n : RatEq(df.t[k], Rat((k - 1) * T.num, n * T.den))

\* C6 (amended): t[i] = i * (T / (n - 1)) for every i in 0..n-1 when n >= 2, and
\* t[0] = 0 when n = 1.
C6_GridValues ==
  (pc = "returned" /\ Valid) =>
     \A k \in 1..n :
        IF n = 1 THEN RatEq(df.t[k], RatZero)
        ELSE RatEq(df.t[k], Rat((k - 1) * T.num, (n - 1) * T.den))

\* a grid whose second point is T / (n - 1) and not T / n was returned
C6_Witness ==
  /\ pc = "returned" /\ Valid
  /\ n >= 3
  /\ RatEq(df.t[2], Rat(T.num, (n - 1) * T.den))
  /\ ~RatEq(df.t[2], Rat(T.num, n * T.den))

\* C7: for valid (T, dt) the call returns a table, never an error, with exactly
\* the columns t, x, y, z, indexed by the time grid, whose row i pairs t[i]
\* with state-buffer slot i as the driver loop left it.
C7_Frame ==
  /\ Valid => err = "none"
  /\ (pc = "returned" /\ Valid) =>
        /\ df.columns = {"t", "x", "y", "z"}
        /\ df.index = t_vals
        /\ df.t = t_vals
        /\ Len(df.t) = n /\ Len(df.x) = n /\ Len(df.y) = n /\ Len(df.z) = n
        /\ Len(u) = n
        /\ \A k \in 1..n : Row(k) = u[k]

\* a table of at least two distinct rows was returned
C7_Witness ==
  /\ pc = "returned" /\ Valid
  /\ n >= 2
  /\ u[1] # u[2]
  /\ Row(2) = u[2]

\* C8: in the completed trajectory every row i in 1..n-1 is the classical RK4
\* update of row i-1 with step dt and parameter c, a function of those three only.
C8_RK4Chain ==
  pc = "returned" =>
     \A k \in 2..n : Row(k) = ClassicalRK4(Row(k - 1), Fix(dt), c)

\* a trajectory of at least three rows was returned with a moving state
C8_Witness ==
  /\ pc = "returned"
  /\ n >= 3
  /\ Row(3) # Row(2)
  /\ Row(3) = ClassicalRK4(Row(2), Fix(dt), c)

\* C9: iteration 0 reads slot n-1, which still holds (0,0,0) because nothing has
\* been written yet, so the value written at iteration 0 is the RK4 step of
\* (0,0,0); for n = 1 the slot read is slot 0 itself.
C9_WrapRead ==
  /\ (pc \in {"K1", "K2", "K3", "K4", "store"} /\ i = 0) =>
        /\ prev = n - 1
        /\ writes = <<>>
        /\ u[n] = Zero
  /\ Len(reads) >= 1 => reads[1] = <<n - 1, Zero>>
  /\ Len(writes) >= 1 =>
        /\ writes[1] = 0
        /\ u[1] = ClassicalRK4(Zero, Fix(dt), c)

\* iteration 0 has written slot 0 of a buffer of at least two slots after
\* reading the last one
C9_Witness ==
  /\ n >= 2
  /\ Len(writes) >= 1
  /\ reads[1][1] = n - 1
  /\ u[1] # Zero

IterationCounts ==
  /\ steps <= n \/ (n < 0 /\ steps = 0)
  /\ Len(writes) <= steps
  /\ \A k \in 1..Len(writes) : writes[k] = k - 1
  /\ duCalls <= 4 * steps
  /\ duCalls >= 4 * Len(writes)
  /\ pc \in {"assemble", "returned"} =>
        /\ steps = n
        /\ duCalls = 4 * n
        /\ Len(writes) = n
  /\ n = 0 => (steps = 0 /\ duCalls = 0 /\ writes = <<>>)

\* C10: the driver loop terminates after exactly n iterations: n RK4 steps of
\* four field evaluations each, slots 0..n-1 written once each in ascending
\* order, and for n = 0 no step and no write.
C10_Loop == [](IterationCounts) /\ <>(Finished)

\* the loop has finished a run of at least three iterations
C10_Witness ==
  /\ pc = "returned"
  /\ n >= 3
  /\ steps = n
  /\ writes = [k \in 1..n |-> k - 1]

====
